---------------------------- MODULE Spec2Model ----------------------------
(***************************************************************************)
(* Model of the mail-service relay: POST /send-email (send_mail) creates   *)
(* a pending EmailLog row and schedules send_email_background, which       *)
(* renders the welcome template, calls send_email and commits the final    *)
(* status; GET /api/status (email_status) counts and pages the rows.       *)
(***************************************************************************)
EXTENDS Integers, Sequences, FiniteSets, TLC

(***************************************************************************)
(* Bounds of the model.                                                    *)
(***************************************************************************)
\* number of POST /send-email requests in the interleaving specifications
MaxEmails == 2
\* number of rows of the stored tables the paging specification draws
MaxRows == 12
\* highest page number a status query asks for
MaxPage == 2

(***************************************************************************)
(* Program constants.                                                      *)
(***************************************************************************)
\* routers.py:177
per_page == 10
\* routers.py:72, the success class 200 <= status_code < 300
SuccessLow == 200
SuccessHigh == 300
\* mailerlite.py:74, :77, :80
TimeoutCode == 408
ConnectionCode == 503
UnexpectedCode == 500

TimeoutMessage == "Request timeout - email service took too long to respond"
ConnectionMessage == "Connection error - could not reach email service"
FailedPrefix == "Email sending failed: "
QueuedResponse == "Email queued for sending"
QueuedMessage == "Email queued for sending in background"

(***************************************************************************)
(* Request bodies (schemas.py EmailRequest) the clients submit.            *)
(***************************************************************************)
EmailRequest ==
  { [sender_email |-> "a@x.com", sender_name |-> "A",
     receiver_email |-> "b@y.com", receiver_name |-> "B",
     subject |-> "Hi", content |-> "<p>hi</p>"],
    [sender_email |-> "c@z.com", sender_name |-> "C",
     receiver_email |-> "d@w.com", receiver_name |-> "D",
     subject |-> "Yo", content |-> "<p>yo</p>"] }

OneRequest ==
  { d \in EmailRequest : d.subject = "Hi" }

(***************************************************************************)
(* Exceptions: the classes of requests.exceptions that send_email's        *)
(* except clauses tell apart.  ConnectTimeout derives from both            *)
(* ConnectionError and Timeout.                                            *)
(***************************************************************************)
Bases(exc) ==
  CASE exc = "ReadTimeout"     -> {"ReadTimeout", "Timeout", "Exception"}
    [] exc = "ConnectTimeout"  -> {"ConnectTimeout", "ConnectionError", "Timeout", "Exception"}
    [] exc = "ConnectionError" -> {"ConnectionError", "Exception"}
    [] OTHER                   -> {exc, "Exception"}

isinstance(exc, cls) == cls \in Bases(exc)

\* str(e)
str(exc) ==
  CASE exc = "ReadTimeout"       -> "Read timed out."
    [] exc = "ConnectTimeout"    -> "Connect timed out."
    [] exc = "ConnectionError"   -> "Connection refused"
    [] exc = "TypeError"         -> "'NoneType' object is not subscriptable"
    [] exc = "TemplateNotFound"  -> "welcome.html"
    [] exc = "OperationalError"  -> "database is locked"
    [] exc = "UnboundLocalError" -> "local variable 'log' referenced before assignment"
    [] OTHER                     -> exc

(***************************************************************************)
(* What one run of the body of send_email meets: the external API answers  *)
(* with a status code and a body, or a statement of the try block raises.  *)
(***************************************************************************)
Response(code, text) ==
  [kind |-> "response", status_code |-> code, text |-> text, exc |-> ""]

Raise(exc) ==
  [kind |-> "raise", status_code |-> 0, text |-> "", exc |-> exc]

Outcomes ==
  { Response(200, "accepted"), Response(299, ""),
    Response(300, "redirect"), Response(401, "") }
  \cup { Raise(e) : e \in {"ReadTimeout", "ConnectTimeout", "ConnectionError", "TypeError"} }

FewOutcomes ==
  { Response(200, "accepted"), Response(401, "") }

\* send_email with the ConnectionError clause tried before the Timeout clause
send_email_reordered(o) ==
  IF o.kind = "response"
    THEN <<o.status_code, o.text>>
    ELSE IF isinstance(o.exc, "ConnectionError")
      THEN <<ConnectionCode, ConnectionMessage>>
      ELSE IF isinstance(o.exc, "Timeout")
        THEN <<TimeoutCode, TimeoutMessage>>
        ELSE <<UnexpectedCode, FailedPrefix \o str(o.exc)>>

\* send_email: the pair it returns for the outcome o of its try block
send_email(o) ==
  IF o.kind = "response"
    THEN <<o.status_code, o.text>>
    ELSE IF isinstance(o.exc, "Timeout")
      THEN <<TimeoutCode, TimeoutMessage>>
      ELSE IF isinstance(o.exc, "ConnectionError")
        THEN <<ConnectionCode, ConnectionMessage>>
        ELSE <<UnexpectedCode, FailedPrefix \o str(o.exc)>>

(***************************************************************************)
(* State.                                                                  *)
(***************************************************************************)
VARIABLES
  logs,     \* the email_logs table: the EmailLog rows in insertion order
  req,      \* req[h]: the h-th POST /send-email request and its handler
  bg,       \* bg[h]: the BackgroundTasks of request h, a list of tasks
  updates,  \* updates[id]: the UPDATEs committed to row id, in order (history)
  qpc,      \* email_status: "idle" or "counted" (between count and fetch)
  qargs,    \* email_status: its page and status arguments
  qtotal,   \* email_status: the local total
  qstale,   \* a row was inserted or updated since total was computed (history)
  reply     \* the last response of GET /api/status

vars == <<logs, req, bg, updates, qpc, qargs, qtotal, qstale, reply>>
qvars == <<qpc, qargs, qtotal, qstale, reply>>

Handlers == 1..MaxEmails
Status == {"pending", "sent", "failed"}

NoData == [sender_email |-> "", sender_name |-> "", receiver_email |-> "",
           receiver_name |-> "", subject |-> "", content |-> ""]
NoResponse == [status |-> "", email_id |-> 0, message |-> ""]
NoReply == [total |-> 0, page |-> 0, per_page |-> 0, data |-> <<>>]
NoArgs == [page |-> 0, status |-> ""]

\* models.py EmailLog
EmailLog(id, sender, receiver, subject, status, response, created_at) ==
  [id |-> id, sender_email |-> sender, receiver_email |-> receiver,
   subject |-> subject, status |-> status, response |-> response,
   created_at |-> created_at]

Ids(table) == { table[i].id : i \in DOMAIN table }

SetMax(S) == CHOOSE m \in S : \A n \in S : n <= m

\* the INTEGER PRIMARY KEY the table assigns to a new row
NextId(table) == IF table = <<>> THEN 1 ELSE SetMax(Ids(table)) + 1

\* func.now(): the timestamp of a new row is that of the latest row (the
\* clock has not advanced since) or later
LastCreated(table) ==
  IF table = <<>> THEN 0 ELSE SetMax({ table[i].created_at : i \in DOMAIN table })

Now(table) ==
  IF table = <<>> THEN {1} ELSE {LastCreated(table), LastCreated(table) + 1}

\* db.query(EmailLog).filter(EmailLog.id == id).first(): the row's position, 0 for None
First(table, id) ==
  IF id \in Ids(table) THEN CHOOSE i \in DOMAIN table : table[i].id = id ELSE 0

Init ==
  /\ logs = <<>>
  /\ req = [h \in Handlers |-> [pc |-> "none", data |-> NoData, log_id |-> 0,
                                 response |-> NoResponse]]
  /\ bg = [h \in Handlers |-> <<>>]
  /\ updates = <<>>
  /\ qpc = "idle"
  /\ qargs = NoArgs
  /\ qtotal = 0
  /\ qstale = FALSE
  /\ reply = NoReply


(***************************************************************************)
(* POST /send-email: send_mail.                                            *)
(***************************************************************************)
\* routers.py:125-130
Payload(data) ==
  [from |-> [email |-> data.sender_email, name |-> data.sender_name],
   to |-> <<[email |-> data.receiver_email, name |-> data.receiver_name]>>,
   subject |-> data.subject,
   html |-> data.content]

\* NewLog with the two addresses exchanged
NewLogSwapped(data, id, now) ==
  EmailLog(id, data.receiver_email, data.sender_email, data.subject,
           "pending", QueuedResponse, now)

\* routers.py:133-139
NewLog(data, id, now) ==
  EmailLog(id, data.sender_email, data.receiver_email, data.subject,
           "pending", QueuedResponse, now)

\* BoundId reading the newest row of the table instead of the handler's own row
BoundIdLatest(h) == SetMax(Ids(logs))

\* the id add_task binds the job to: log.id after db.refresh(log)
BoundId(h) == req[h].log_id

\* the task add_task appends: send_email_background(log.id, payload), not started
Task(email_log_id, payload) ==
  [email_log_id |-> email_log_id, payload |-> payload, pc |-> "scheduled",
   log |-> -1, html_content |-> "", outcome |-> Raise(""), result |-> <<>>,
   exc |-> ""]

\* db.add(log); db.commit(); db.refresh(log)
send_mail_commit(h, data, now) ==
  /\ req[h].pc = "none"
  /\ \A g \in Handlers : g < h => req[g].pc # "none"
  /\ LET id == NextId(logs) IN
       /\ logs' = Append(logs, NewLog(data, id, now))
       /\ updates' = Append(updates, <<>>)
       /\ req' = [req EXCEPT ![h] = [@ EXCEPT !.pc = "committed", !.data = data,
                                               !.log_id = id]]
  /\ qstale' = (qstale \/ qpc = "counted")
  /\ UNCHANGED <<bg, qpc, qargs, qtotal, reply>>

\* background_tasks.add_task(...); return {...}: the response is sent and
\* only then does the framework run the request's background tasks
send_mail_return(h) ==
  /\ req[h].pc = "committed"
  /\ bg' = [bg EXCEPT ![h] = Append(@, Task(BoundId(h), Payload(req[h].data)))]
  /\ req' = [req EXCEPT ![h] = [@ EXCEPT !.pc = "returned",
                 !.response = [status |-> "queued", email_id |-> req[h].log_id,
                               message |-> QueuedMessage]]]
  /\ UNCHANGED <<logs, updates, qvars>>

(***************************************************************************)
(* The background job: send_email_background(email_log_id, payload).       *)
(***************************************************************************)
\* Classify with 200 itself left out of the success class
ClassifyExclusive(status_code) ==
  IF SuccessLow < status_code /\ status_code < SuccessHigh THEN "sent" ELSE "failed"

\* Classify with 300 taken into the success class
ClassifyInclusive(status_code) ==
  IF SuccessLow <= status_code /\ status_code <= SuccessHigh THEN "sent" ELSE "failed"

\* Classify writing a status only on success
ClassifyKeep(status_code) ==
  IF SuccessLow <= status_code /\ status_code < SuccessHigh THEN "sent" ELSE "pending"

\* routers.py:72
Classify(status_code) ==
  IF SuccessLow <= status_code /\ status_code < SuccessHigh THEN "sent" ELSE "failed"

\* routers.py:50-60: the variables of the welcome template
Render(payload) ==
  LET to_data == IF Len(payload.to) > 0 THEN payload.to[1] ELSE [email |-> "", name |-> "User"]
  IN  "welcome " \o to_data.name \o " Our Company # # 2026"

\* UpdateRow without its WHERE clause
UpdateRowAll(table, id, status, response) ==
  [i \in DOMAIN table |-> [table[i] EXCEPT !.status = status, !.response = response]]

\* the UPDATE a commit flushes for the loaded row
UpdateRow(table, id, status, response) ==
  [i \in DOMAIN table |->
     IF table[i].id = id
       THEN [table[i] EXCEPT !.status = status, !.response = response]
       ELSE table[i]]

\* log.status = ...; log.response = ...; db.commit()
Commit(h, k, status, response) ==
  LET id == bg[h][k].log IN
    /\ logs' = UpdateRow(logs, id, status, response)
    /\ updates' = [updates EXCEPT ![id] =
                     Append(@, [by |-> <<h, k>>, status |-> status, response |-> response])]
    /\ qstale' = (qstale \/ qpc = "counted")

Started(h) == req[h].pc = "returned"

\* routers.py:40-42
send_email_background_fetch(h, k) ==
  /\ Started(h)
  /\ k \in DOMAIN bg[h]
  /\ bg[h][k].pc = "scheduled"
  /\ LET i == First(logs, bg[h][k].email_log_id) IN
       bg' = [bg EXCEPT ![h][k] =
                IF i = 0 THEN [@ EXCEPT !.pc = "done", !.log = 0]
                         ELSE [@ EXCEPT !.pc = "fetched", !.log = logs[i].id]]
  /\ UNCHANGED <<logs, req, updates, qvars>>

\* routers.py:45-60, the template renders
send_email_background_render(h, k) ==
  /\ k \in DOMAIN bg[h]
  /\ bg[h][k].pc = "fetched"
  /\ bg' = [bg EXCEPT ![h][k] = [@ EXCEPT !.pc = "rendered",
                                          !.html_content = Render(bg[h][k].payload)]]
  /\ UNCHANGED <<logs, req, updates, qvars>>

\* routers.py:45-60, get_template or render raises
send_email_background_render_raises(h, k) ==
  /\ k \in DOMAIN bg[h]
  /\ bg[h][k].pc = "fetched"
  /\ bg' = [bg EXCEPT ![h][k] = [@ EXCEPT !.pc = "except", !.exc = "TemplateNotFound"]]
  /\ UNCHANGED <<logs, req, updates, qvars>>

\* routers.py:62-69
send_email_background_send(h, k, o) ==
  /\ k \in DOMAIN bg[h]
  /\ bg[h][k].pc = "rendered"
  /\ bg' = [bg EXCEPT ![h][k] = [@ EXCEPT !.pc = "delivered", !.outcome = o,
                                          !.result = send_email(o)]]
  /\ UNCHANGED <<logs, req, updates, qvars>>

\* routers.py:72-74
send_email_background_commit(h, k) ==
  /\ k \in DOMAIN bg[h]
  /\ bg[h][k].pc = "delivered"
  /\ Commit(h, k, Classify(bg[h][k].result[1]), bg[h][k].result[2])
  /\ bg' = [bg EXCEPT ![h][k] = [@ EXCEPT !.pc = "done"]]
  /\ UNCHANGED <<req, qpc, qargs, qtotal, reply>>

\* routers.py:76-81: the handler of the try block's exception.  log is
\* -1 while the name is unbound (the query raised before the assignment).
send_email_background_except(h, k) ==
  /\ k \in DOMAIN bg[h]
  /\ bg[h][k].pc = "except"
  /\ IF bg[h][k].log = -1
       THEN /\ bg' = [bg EXCEPT ![h][k] = [@ EXCEPT !.pc = "escaped",
                                                   !.exc = "UnboundLocalError"]]
            /\ UNCHANGED <<logs, updates, qstale>>
       ELSE /\ Commit(h, k, "failed", str(bg[h][k].exc))
            /\ bg' = [bg EXCEPT ![h][k] = [@ EXCEPT !.pc = "done"]]
  /\ UNCHANGED <<req, qpc, qargs, qtotal, reply>>

(***************************************************************************)
(* The same job when the persistence layer fails.                          *)
(***************************************************************************)
\* routers.py:40, db.query(...).first() raises: log is never assigned
send_email_background_fetch_raises(h, k) ==
  /\ Started(h)
  /\ k \in DOMAIN bg[h]
  /\ bg[h][k].pc = "scheduled"
  /\ bg' = [bg EXCEPT ![h][k] = [@ EXCEPT !.pc = "except", !.exc = "OperationalError"]]
  /\ UNCHANGED <<logs, req, updates, qvars>>

\* routers.py:74, db.commit() raises: the transaction is rolled back
send_email_background_commit_raises(h, k) ==
  /\ k \in DOMAIN bg[h]
  /\ bg[h][k].pc = "delivered"
  /\ bg' = [bg EXCEPT ![h][k] = [@ EXCEPT !.pc = "except", !.exc = "OperationalError"]]
  /\ UNCHANGED <<logs, req, updates, qvars>>

\* routers.py:81, the handler's own db.commit() raises
send_email_background_except_raises(h, k) ==
  /\ k \in DOMAIN bg[h]
  /\ bg[h][k].pc = "except"
  /\ bg[h][k].log > 0
  /\ bg' = [bg EXCEPT ![h][k] = [@ EXCEPT !.pc = "escaped", !.exc = "OperationalError"]]
  /\ UNCHANGED <<logs, req, updates, qvars>>

(***************************************************************************)
(* GET /api/status: email_status.                                          *)
(***************************************************************************)
Filters == {""} \cup Status

\* routers.py:173-175: the rows the query selects; an absent or empty
\* status selects them all
Matching(table, status) ==
  { table[i] : i \in { j \in DOMAIN table : status = "" \/ table[j].status = status } }

\* Count over the unfiltered table
CountAll(table, status) == Len(table)

\* query.count()
Count(table, status) == Cardinality(Matching(table, status))

RECURSIVE SeqsOf(_)
SeqsOf(S) ==
  IF S = {} THEN {<<>>}
  ELSE UNION { { <<x>> \o s : s \in SeqsOf(S \ {x}) } : x \in S }

\* ORDER BY created_at DESC: every sequence of the rows with created_at
\* descending; rows with equal created_at come in any order
RECURSIVE OrderBy(_)
OrderBy(rows) ==
  IF rows = {} THEN {<<>>}
  ELSE LET m == SetMax({ r.created_at : r \in rows })
           G == { r \in rows : r.created_at = m }
       IN  { p \o q : p \in SeqsOf(G), q \in OrderBy(rows \ G) }

\* routers.py:179
Offset(page) == (page - 1) * per_page

\* OFFSET o LIMIT l
Slice(s, o, l) ==
  IF o >= Len(s) THEN <<>>
  ELSE SubSeq(s, o + 1, IF o + l < Len(s) THEN o + l ELSE Len(s))

\* routers.py:186-194
Item(e) ==
  [id |-> e.id, sender |-> e.sender_email, receiver |-> e.receiver_email,
   subject |-> e.subject, status |-> e.status, response |-> e.response,
   created_at |-> e.created_at]

\* routers.py:173-178: query = ...; total = query.count()
email_status_count(page, status) ==
  /\ qpc = "idle"
  /\ qpc' = "counted"
  /\ qargs' = [page |-> page, status |-> status]
  /\ qtotal' = Count(logs, status)
  /\ qstale' = FALSE
  /\ reply' = NoReply
  /\ UNCHANGED <<logs, req, bg, updates>>

\* routers.py:179-196: emails = query.order_by(...).offset(...).limit(...).all()
email_status_fetch ==
  /\ qpc = "counted"
  /\ \E ordered \in OrderBy(Matching(logs, qargs.status)) :
       LET emails == Slice(ordered, Offset(qargs.page), per_page) IN
         reply' = [total |-> qtotal, page |-> qargs.page, per_page |-> per_page,
                   data |-> [i \in DOMAIN emails |-> Item(emails[i])]]
  /\ qpc' = "idle"
  /\ UNCHANGED <<logs, req, bg, updates, qargs, qtotal, qstale>>

(***************************************************************************)
(* Stored tables: the email_logs table a process finds when it starts,     *)
(* left by earlier runs.  The oldest a rows are sent, the next failed, the *)
(* rest pending; rows tie and tie+1 were inserted within one clock tick.   *)
(***************************************************************************)
StoredRow(i, a, b, tie) ==
  LET status == IF i <= a THEN "sent" ELSE IF i <= b THEN "failed" ELSE "pending"
      response == IF i <= a THEN "accepted"
                  ELSE IF i <= b THEN TimeoutMessage ELSE QueuedResponse
      data == CHOOSE d \in OneRequest : TRUE
  IN  EmailLog(i, data.sender_email, data.receiver_email, data.subject,
               status, response, IF tie > 0 /\ i > tie THEN i - 1 ELSE i)

StoredTables ==
  { [i \in 1..n |-> StoredRow(i, a, b, tie)] :
      <<n, a, b, tie>> \in { t \in (0..MaxRows) \X (0..MaxRows) \X (0..MaxRows) \X (0..MaxRows) :
                              t[2] <= t[3] /\ t[3] <= t[1] /\ t[4] < t[1] } }
  \cup {<<>>}

InitStored ==
  /\ logs \in StoredTables
  /\ req = [h \in Handlers |-> [pc |-> "none", data |-> NoData, log_id |-> 0,
                                 response |-> NoResponse]]
  /\ bg = [h \in Handlers |-> <<>>]
  /\ updates = [i \in DOMAIN logs |-> <<>>]
  /\ qpc = "idle"
  /\ qargs = NoArgs
  /\ qtotal = 0
  /\ qstale = FALSE
  /\ reply = NoReply

(***************************************************************************)
(* Specifications.                                                         *)
(***************************************************************************)
\* Spec: submissions and their background jobs, the persistence layer working.
Submit ==
  \E h \in Handlers :
    \/ \E data \in EmailRequest, now \in Now(logs) : send_mail_commit(h, data, now)
    \/ send_mail_return(h)

Job ==
  \E h \in Handlers : \E k \in DOMAIN bg[h] :
    \/ send_email_background_fetch(h, k)
    \/ send_email_background_render(h, k)
    \/ send_email_background_render_raises(h, k)
    \/ \E o \in Outcomes : send_email_background_send(h, k, o)
    \/ send_email_background_commit(h, k)
    \/ send_email_background_except(h, k)

Next == Submit \/ Job

Spec == Init /\ [][Next]_vars

\* Submissions of one request body.
SubmitOne ==
  \E h \in Handlers :
    \/ \E data \in OneRequest, now \in Now(logs) : send_mail_commit(h, data, now)
    \/ send_mail_return(h)

\* SpecFair: submissions and jobs, every handler returning and every
\* scheduled job being run.
JobOf(h) ==
  \E k \in DOMAIN bg[h] :
    \/ send_email_background_fetch(h, k)
    \/ send_email_background_render(h, k)
    \/ send_email_background_render_raises(h, k)
    \/ \E o \in Outcomes : send_email_background_send(h, k, o)
    \/ send_email_background_commit(h, k)
    \/ send_email_background_except(h, k)

NextFair == SubmitOne \/ Job

SpecFair ==
  /\ Init /\ [][NextFair]_vars
  /\ \A h \in Handlers : WF_vars(send_mail_return(h)) /\ WF_vars(JobOf(h))

\* SpecQuery: submissions, jobs and status queries interleaved.
JobFew ==
  \E h \in Handlers : \E k \in DOMAIN bg[h] :
    \/ send_email_background_fetch(h, k)
    \/ send_email_background_render(h, k)
    \/ send_email_background_render_raises(h, k)
    \/ \E o \in FewOutcomes : send_email_background_send(h, k, o)
    \/ send_email_background_commit(h, k)
    \/ send_email_background_except(h, k)

Query ==
  \/ \E page \in 1..MaxPage, status \in Filters : email_status_count(page, status)
  \/ email_status_fetch

NextQuery == SubmitOne \/ JobFew \/ Query

SpecQuery == Init /\ [][NextQuery]_vars

\* SpecPage: status queries over a stored table.
SpecPage == InitStored /\ [][Query]_vars

\* SpecFault: submissions and jobs, the persistence layer failing at will.
JobFault ==
  \E h \in Handlers : \E k \in DOMAIN bg[h] :
    \/ send_email_background_fetch_raises(h, k)
    \/ send_email_background_commit_raises(h, k)
    \/ send_email_background_except_raises(h, k)

NextFault == SubmitOne \/ JobFew \/ JobFault

SpecFault == Init /\ [][NextFault]_vars

(***************************************************************************)
(* Properties.                                                             *)
(***************************************************************************)
Tasks == UNION { { <<h, k>> : k \in DOMAIN bg[h] } : h \in Handlers }

TaskOf(t) == bg[t[1]][t[2]]

\* the stored row with primary key id
Row(id) == logs[CHOOSE i \in DOMAIN logs : logs[i].id = id]

Success(code) == 200 <= code /\ code < 300

Called(t) == TaskOf(t).pc \in {"delivered", "done"} /\ TaskOf(t).result # <<>>

\* C1: when send_email returned a status code in [200,300) the job moves its
\* entry from pending to sent exactly once (the entry is untouched until the
\* job commits, and the commit is its only update) and stores the response
\* body as the entry's response.
C1_SentOnce ==
  \A t \in Tasks :
    LET job == TaskOf(t)
        id == job.email_log_id
    IN  (Called(t) /\ Success(job.result[1])) =>
          /\ job.outcome.kind = "response"
          /\ job.pc = "delivered" =>
               Row(id).status = "pending" /\ updates[id] = <<>>
          /\ job.pc = "done" =>
               /\ Row(id).status = "sent"
               /\ Row(id).response = job.outcome.text
               /\ updates[id] = <<[by |-> t, status |-> "sent",
                                   response |-> job.outcome.text]>>

C1_Witness ==
  \E t \in Tasks :
    /\ TaskOf(t).pc = "done"
    /\ TaskOf(t).outcome = Response(200, "accepted")
    /\ Row(TaskOf(t).email_log_id).status = "sent"
    /\ Row(TaskOf(t).email_log_id).response = "accepted"

\* C2 as claimed: when send_email returned a status code outside [200,300),
\* or met a transport error, the entry moves from pending to failed exactly
\* once and its response text is then non-empty.
C2_FailedOnceNonEmpty ==
  \A t \in Tasks :
    LET job == TaskOf(t)
        id == job.email_log_id
    IN  (Called(t) /\ ~Success(job.result[1]) /\ job.pc = "done") =>
          /\ Row(id).status = "failed"
          /\ Len(updates[id]) = 1
          /\ updates[id][1].status = "failed"
          /\ Row(id).response # ""

\* C2 amended: in those cases the entry moves from pending to failed exactly
\* once and its response is the text send_email returned: non-empty for
\* every transport error, and the delivery API's body verbatim, empty when
\* that body is empty, for a status code outside [200,300).
C2_FailedOnce ==
  \A t \in Tasks :
    LET job == TaskOf(t)
        id == job.email_log_id
    IN  (Called(t) /\ ~Success(job.result[1])) =>
          /\ job.pc = "delivered" =>
               Row(id).status = "pending" /\ updates[id] = <<>>
          /\ job.pc = "done" =>
               /\ Row(id).status = "failed"
               /\ updates[id] = <<[by |-> t, status |-> "failed",
                                   response |-> Row(id).response]>>
               /\ job.outcome.kind = "response" => Row(id).response = job.outcome.text
               /\ job.outcome.kind = "raise" =>
                    Row(id).response # "" /\ Row(id).response = job.result[2]

C2_Witness ==
  /\ \E t \in Tasks :
       /\ TaskOf(t).pc = "done"
       /\ TaskOf(t).outcome = Response(401, "")
       /\ Row(TaskOf(t).email_log_id).status = "failed"
       /\ Row(TaskOf(t).email_log_id).response = ""
  /\ \E t \in Tasks :
       /\ TaskOf(t).pc = "done"
       /\ TaskOf(t).outcome = Raise("ReadTimeout")
       /\ Row(TaskOf(t).email_log_id).status = "failed"
       /\ Row(TaskOf(t).email_log_id).response = TimeoutMessage

\* C3: when send_mail has returned {status: "queued", email_id} and the job
\* it scheduled has not started, the entry with id = email_id exists, is
\* pending, carries the request's sender, receiver and subject, and has
\* never been updated.
C3_PendingAtReturn ==
  \A h \in Handlers :
    (req[h].pc = "returned" /\ \A k \in DOMAIN bg[h] : bg[h][k].pc = "scheduled") =>
      /\ req[h].response.status = "queued"
      /\ req[h].response.email_id \in Ids(logs)
      /\ LET e == Row(req[h].response.email_id) IN
           /\ e.status = "pending"
           /\ e.sender_email = req[h].data.sender_email
           /\ e.receiver_email = req[h].data.receiver_email
           /\ e.subject = req[h].data.subject
           /\ e.response = QueuedResponse
      /\ updates[req[h].response.email_id] = <<>>

C3_Witness ==
  \E h \in Handlers, g \in Handlers :
    /\ h # g
    /\ req[h].pc = "returned" /\ bg[h][1].pc = "scheduled"
    /\ Row(req[h].response.email_id).status = "pending"
    /\ req[g].pc = "returned" /\ bg[g][1].pc = "done"
    /\ req[g].data # req[h].data

\* C5: send_email never raises and returns a pair for every outcome of its
\* try block: a received response gives its status code and its body
\* verbatim, a timeout (read or connect) gives 408, a connection failure
\* that is no timeout gives 503, any other exception gives 500 with the
\* exception's description in the message.
C5_AlwaysAPair ==
  \A t \in Tasks :
    LET job == TaskOf(t)
        o == job.outcome
    IN  o # Raise("") =>
          /\ job.pc \in {"delivered", "done"}
          /\ job.exc = ""
          /\ Len(job.result) = 2
          /\ o.kind = "response" => job.result = <<o.status_code, o.text>>
          /\ (o.kind = "raise" /\ o.exc \in {"ReadTimeout", "ConnectTimeout"}) =>
               job.result[1] = 408
          /\ (o.kind = "raise" /\ o.exc = "ConnectionError") => job.result[1] = 503
          /\ (o.kind = "raise" /\ o.exc \notin {"ReadTimeout", "ConnectTimeout",
                                                 "ConnectionError"}) =>
               /\ job.result[1] = 500
               /\ job.result[2] = "Email sending failed: " \o str(o.exc)

C5_Witness ==
  /\ \E t \in Tasks : TaskOf(t).outcome = Raise("ConnectTimeout")
                      /\ TaskOf(t).result[1] = 408
  /\ \E t \in Tasks : TaskOf(t).outcome = Raise("TypeError")
                      /\ TaskOf(t).result[1] = 500

\* C10: every submission that has returned scheduled exactly one job, bound
\* to the id of the entry that submission created; a submission that has
\* not returned scheduled none; no two jobs are bound to the same entry id;
\* every update of an entry was committed by the one job bound to it, and a
\* job loads no entry but the one it is bound to.
C10_OneJobPerEntry ==
  /\ \A h \in Handlers :
       IF req[h].pc = "returned"
         THEN Len(bg[h]) = 1 /\ bg[h][1].email_log_id = req[h].log_id
         ELSE bg[h] = <<>>
  /\ \A t, u \in Tasks : TaskOf(t).email_log_id = TaskOf(u).email_log_id => t = u
  /\ \A id \in DOMAIN updates :
       /\ Len(updates[id]) <= 1
       /\ \A n \in DOMAIN updates[id] :
            updates[id][n].by \in Tasks /\ TaskOf(updates[id][n].by).email_log_id = id
  /\ \A t \in Tasks : TaskOf(t).log \in {-1, 0, TaskOf(t).email_log_id}

C10_Witness ==
  /\ \A h \in Handlers : req[h].pc = "returned" /\ bg[h][1].pc = "done"
  /\ \A id \in DOMAIN updates : Len(updates[id]) = 1
  /\ \E id \in DOMAIN updates : updates[id][1].status = "sent"
  /\ \E id \in DOMAIN updates : updates[id][1].status = "failed"

Terminal(status) == status \in {"sent", "failed"}

\* C4: every entry's status is pending, sent or failed; over every step
\* (submission, job step or status query) an entry that is sent or failed
\* keeps its status and its response, and every entry stays in the table
\* under its id.
C4_TerminalAbsorbing ==
  /\ [](\A i \in DOMAIN logs : logs[i].status \in {"pending", "sent", "failed"})
  /\ [][\A i \in DOMAIN logs :
          /\ i \in DOMAIN logs'
          /\ logs'[i].id = logs[i].id
          /\ Terminal(logs[i].status) =>
               /\ logs'[i].status = logs[i].status
               /\ logs'[i].response = logs[i].response]_vars

C4_Witness ==
  /\ qpc = "idle" /\ reply.total = 2
  /\ Len(logs) = 2
  /\ logs[1].status = "sent" /\ logs[2].status = "failed"
  /\ \A h \in Handlers : req[h].pc = "returned" /\ bg[h][1].pc = "done"

\* the number of stored entries whose status is s
WithStatus(s) == Cardinality({ i \in DOMAIN logs : logs[i].status = s })

CountStep == qpc = "idle" /\ qpc' = "counted"
FetchStep == qpc = "counted" /\ qpc' = "idle"

\* C7 as claimed: a status query with filter s answers with entries of
\* status s only and with total = the number of entries whose status is s
\* when it answers, also with jobs committing between its count and fetch.
C7_FilteredTotal ==
  [][(FetchStep /\ qargs.status # "") =>
       /\ \A n \in DOMAIN reply'.data : reply'.data[n].status = qargs.status
       /\ reply'.total = WithStatus(qargs.status)]_vars

\* C7 amended: the total is the number of entries whose status was s when
\* the count step ran (the filtered count, not the global one), every
\* returned entry has status s when the fetch step runs, and the total is
\* the number of entries of status s at the fetch step whenever no entry
\* was created or updated between the two steps.
C7_FilteredTotalAtCount ==
  /\ [][(CountStep /\ qargs'.status # "") => qtotal' = WithStatus(qargs'.status)]_vars
  /\ [][(FetchStep /\ qargs.status # "") =>
          /\ \A n \in DOMAIN reply'.data : reply'.data[n].status = qargs.status
          /\ reply'.total = qtotal
          /\ ~qstale => reply'.total = WithStatus(qargs.status)]_vars

C7_Witness ==
  /\ qpc = "idle"
  /\ qargs.status = "pending"
  /\ qstale
  /\ reply.total = 2
  /\ Len(reply.data) = 1
  /\ WithStatus("pending") = 1

RECURSIVE NewestFirst(_)
NewestFirst(rows) ==
  IF rows = {} THEN <<>>
  ELSE LET r == CHOOSE x \in rows : \A y \in rows : y.id <= x.id
       IN  <<r>> \o NewestFirst(rows \ {r})

\* positions first..last of the entries of status s (all entries for s = ""),
\* most recently created first
Positions(s, first, last) ==
  LET all == NewestFirst({ logs[i] : i \in { j \in DOMAIN logs :
                                               s = "" \/ logs[j].status = s } })
  IN  [n \in 1..((IF last < Len(all) THEN last ELSE Len(all)) - first + 1) |->
         all[first + n - 1]]

PageAnswer ==
  /\ reply.total = Cardinality({ j \in DOMAIN logs :
                                  qargs.status = "" \/ logs[j].status = qargs.status })
  /\ LET want == Positions(qargs.status, (reply.page - 1) * 10 + 1, reply.page * 10) IN
       /\ Len(reply.data) = Len(want)
       /\ \A n \in DOMAIN want : reply.data[n].id = want[n].id
                                 /\ reply.data[n].status = want[n].status
                                 /\ reply.data[n].created_at = want[n].created_at

\* C6: for every page >= 1 over every stored table the status query answers
\* with exactly the entries at positions (page-1)*10+1 .. page*10 of the
\* matching entries, most recently created first, and with the number of
\* matching entries as total; a page beyond the last has an empty data list.
C6_PageOfNewestFirst ==
  (qpc = "idle" /\ reply # NoReply) => PageAnswer

\* the same when no two stored entries share a created_at timestamp
C6_PageWhenTimesDistinct ==
  (qpc = "idle" /\ reply # NoReply
     /\ \A i, j \in DOMAIN logs : logs[i].created_at = logs[j].created_at => i = j)
  => PageAnswer

C6_PageTwoWitness ==
  /\ qpc = "idle" /\ reply.page = 2 /\ Len(logs) = 12 /\ qargs.status = ""
  /\ Len(reply.data) = 2 /\ reply.data[1].id = 2 /\ reply.data[2].id = 1

\* C8: no exception escapes send_email_background; when a step raised after
\* the entry was fetched the entry is failed with the error's description;
\* when the entry could not be fetched it is never updated.
C8_NothingEscapes ==
  \A t \in Tasks :
    LET job == TaskOf(t)
        id == job.email_log_id
    IN  /\ job.pc # "escaped"
        /\ (job.pc = "done" /\ job.exc # "" /\ job.log > 0) =>
             Row(id).status = "failed" /\ Row(id).response = str(job.exc)
        /\ (job.pc = "done" /\ job.log <= 0) => updates[id] = <<>>

\* the part of C8 the handler does deliver: an exception raised after the
\* entry was fetched, the handler's own commit succeeding
C8_FailedWhenFetched ==
  \A t \in Tasks :
    LET job == TaskOf(t)
        id == job.email_log_id
    IN  (job.pc = "done" /\ job.exc # "" /\ job.log > 0) =>
          Row(id).status = "failed" /\ Row(id).response = str(job.exc)

\* C9: every entry a submission has created eventually leaves pending, for
\* every outcome of rendering and delivery, when handlers return and
\* scheduled jobs are run.
C9_LeavesPending ==
  \A h \in Handlers :
    (req[h].pc = "committed") ~>
      (req[h].log_id \in Ids(logs) /\ Terminal(Row(req[h].log_id).status))

C9_Witness ==
  \E h \in Handlers :
    /\ req[h].pc = "returned"
    /\ bg[h][1].pc = "done"
    /\ bg[h][1].exc = "TemplateNotFound"
    /\ Row(req[h].log_id).status = "failed"
    /\ Row(req[h].log_id).response = "welcome.html"

=============================================================================
